---- MODULE Spec2Model ----
(***************************************************************************)
(* Model of client/src/featureform/enums.py: the string-backed             *)
(* enumerations ScalarType, ComputationMode and FileFormat with their      *)
(* validation and classification methods.                                  *)
(*                                                                         *)
(* Python strings are sequences of one-character strings, so that          *)
(* basename and the glob match work on characters.  A Python value is a    *)
(* record [type, value]; the outcome of a call is a record                 *)
(* [kind, exc, value] with kind "return" or "raise" ("pending" before the  *)
(* call).                                                                  *)
(***************************************************************************)
EXTENDS Integers, Sequences, FiniteSets, TLC

VARIABLES cls, file_path, supported, format, formats,
          raw, has, values, self, other, eq, code

vars == <<cls, file_path, supported, format, formats,
          raw, has, values, self, other, eq, code>>

(* ---------------------------------------------------------------------- *)
(* Bounds of the explored inputs                                          *)
(* ---------------------------------------------------------------------- *)
MaxPathParts == 4

MaxRawParts == 2

MaxOtherParts == 2

(* ---------------------------------------------------------------------- *)
(* Character strings                                                      *)
(* ---------------------------------------------------------------------- *)
s_int == <<"i", "n", "t">>

s_int32 == <<"i", "n", "t", "3", "2">>

s_int64 == <<"i", "n", "t", "6", "4">>

s_float32 == <<"f", "l", "o", "a", "t", "3", "2">>

s_float64 == <<"f", "l", "o", "a", "t", "6", "4">>

s_string == <<"s", "t", "r", "i", "n", "g">>

s_bool == <<"b", "o", "o", "l">>

s_datetime == <<"d", "a", "t", "e", "t", "i", "m", "e">>

s_csv == <<"c", "s", "v">>

s_parquet == <<"p", "a", "r", "q", "u", "e", "t">>

s_PRECOMPUTED == <<"P", "R", "E", "C", "O", "M", "P", "U", "T", "E", "D">>

s_CLIENT_COMPUTED ==
    <<"C", "L", "I", "E", "N", "T", "_", "C", "O", "M", "P", "U", "T", "E", "D">>

(* ---------------------------------------------------------------------- *)
(* Python values and call outcomes                                        *)
(* ---------------------------------------------------------------------- *)
Str(s) == [type |-> "str", value |-> s]

Member(enum, m) == [type |-> enum, value |-> m.value]

Pending == [kind |-> "pending", exc |-> "", value |-> <<>>]

Return(v) == [kind |-> "return", exc |-> "", value |-> v]

Raise(e, msg) == [kind |-> "raise", exc |-> e, value |-> msg]

(* ---------------------------------------------------------------------- *)
(* class ScalarType(Enum)                                                 *)
(* ---------------------------------------------------------------------- *)
ScalarType ==
    << [name |-> "NIL",      value |-> <<>>],
       [name |-> "INT",      value |-> s_int],
       [name |-> "INT32",    value |-> s_int32],
       [name |-> "INT64",    value |-> s_int64],
       [name |-> "FLOAT32",  value |-> s_float32],
       [name |-> "FLOAT64",  value |-> s_float64],
       [name |-> "STRING",   value |-> s_string],
       [name |-> "BOOL",     value |-> s_bool],
       [name |-> "DATETIME", value |-> s_datetime] >>

\* cls(value): the member whose value equals the argument, else ValueError
ScalarType_call(value) ==
    IF \E i \in 1..Len(ScalarType) : ScalarType[i].value = value
    THEN Return(CHOOSE i \in 1..Len(ScalarType) : ScalarType[i].value = value)
    ELSE Raise("ValueError", value)

\* mutant: an empty value is refused before the lookup
has_value_truthy(value) ==
    IF value = <<>> THEN Return(FALSE)
    ELSE IF ScalarType_call(value).kind = "raise" THEN Return(FALSE)
    ELSE Return(TRUE)

has_value(value) ==
    LET r == ScalarType_call(value)
    IN  IF r.kind = "raise" /\ r.exc = "ValueError" THEN Return(FALSE)
        ELSE IF r.kind = "raise" THEN r
        ELSE Return(TRUE)

\* mutant: members whose value is falsy are left out
get_values_truthy ==
    LET RECURSIVE keep(_)
        keep(i) == IF i > Len(ScalarType) THEN <<>>
                   ELSE IF ScalarType[i].value = <<>> THEN keep(i + 1)
                   ELSE <<ScalarType[i].value>> \o keep(i + 1)
    IN  Return(keep(1))

get_values == Return([i \in 1..Len(ScalarType) |-> ScalarType[i].value])

(* ---------------------------------------------------------------------- *)
(* class ComputationMode(Enum)                                            *)
(* ---------------------------------------------------------------------- *)
ComputationMode ==
    << [name |-> "PRECOMPUTED",     value |-> s_PRECOMPUTED],
       [name |-> "CLIENT_COMPUTED", value |-> s_CLIENT_COMPUTED] >>

PRECOMPUTED == Member("ComputationMode", ComputationMode[1])

CLIENT_COMPUTED == Member("ComputationMode", ComputationMode[2])

pb_PRECOMPUTED == "pb.ComputationMode.PRECOMPUTED"

pb_CLIENT_COMPUTED == "pb.ComputationMode.CLIENT_COMPUTED"

None == "None"

RECURSIVE PyEq(_, _)

\* mutant: the equality Enum inherits, identity of members
eq_identity(this, that) ==
    that.type = "ComputationMode" /\ that.value = this.value

\* def __eq__(self, other): return self.value == other
__eq__(this, that) == PyEq(Str(this.value), that)

\* the == operator: the left operand's __eq__, and for a str on the left
\* and a non-str on the right (str.__eq__ gives NotImplemented) the right
\* operand's reflected __eq__
PyEq(a, b) ==
    IF a.type = "ComputationMode" THEN __eq__(a, b)
    ELSE IF b.type = "str" THEN a.value = b.value
    ELSE __eq__(b, a)

proto(this) ==
    IF PyEq(this, PRECOMPUTED) THEN Return(pb_PRECOMPUTED)
    ELSE IF PyEq(this, CLIENT_COMPUTED) THEN Return(pb_CLIENT_COMPUTED)
    ELSE Return(None)

(* ---------------------------------------------------------------------- *)
(* class FileFormat(str, Enum)                                            *)
(* ---------------------------------------------------------------------- *)
FileFormat ==
    << [name |-> "CSV",     value |-> s_csv],
       [name |-> "PARQUET", value |-> s_parquet] >>

\* mutant: the whole path is taken as the file name
basename_whole(p) == p

\* path.basename (POSIX): the text after the last "/"
basename(p) ==
    LET slashes == {i \in 1..Len(p) : p[i] = "/"}
        last == IF slashes = {} THEN 0
                ELSE CHOOSE i \in slashes : \A j \in slashes : j <= i
    IN  SubSeq(p, last + 1, Len(p))

\* mutant: the case folding of a case-insensitive platform
normcase_lower(s) ==
    LET lower(c) == CASE c = "C" -> "c" [] c = "S" -> "s" [] c = "V" -> "v"
                      [] OTHER -> c
    IN  [i \in 1..Len(s) |-> lower(s[i])]

\* os.path.normcase (POSIX): the string unchanged
normcase(s) == s

RECURSIVE fnmatchcase(_, _)

\* mutant: "*" stops at a dot, so that a name has exactly one extension
fnmatchcase_one_ext(name, pat) ==
    LET RECURSIVE m(_, _)
        m(n, p) ==
            IF p = <<>> THEN n = <<>>
            ELSE IF Head(p) = "*"
                 THEN m(n, Tail(p))
                      \/ (n # <<>> /\ Head(n) # "." /\ m(Tail(n), p))
            ELSE n # <<>> /\ Head(n) = Head(p) /\ m(Tail(n), Tail(p))
    IN  m(name, pat)

\* mutant: the pattern is searched for, not anchored at the end of the name
fnmatchcase_search(name, pat) ==
    LET RECURSIVE m(_, _)
        m(n, p) ==
            IF p = <<>> THEN TRUE
            ELSE IF Head(p) = "*"
                 THEN m(n, Tail(p)) \/ (n # <<>> /\ m(Tail(n), p))
            ELSE n # <<>> /\ Head(n) = Head(p) /\ m(Tail(n), Tail(p))
    IN  m(name, pat)

\* shell-style match of the whole name: "*" any run of characters, "?" any
\* one character, every other pattern character itself (the patterns built
\* from the format values hold no "[")
fnmatchcase(name, pat) ==
    IF pat = <<>> THEN name = <<>>
    ELSE IF Head(pat) = "*"
         THEN fnmatchcase(name, Tail(pat))
              \/ (name # <<>> /\ fnmatchcase(Tail(name), pat))
    ELSE IF Head(pat) = "?"
         THEN name # <<>> /\ fnmatchcase(Tail(name), Tail(pat))
    ELSE name # <<>> /\ Head(name) = Head(pat)
         /\ fnmatchcase(Tail(name), Tail(pat))

fnmatch(name, pat) == fnmatchcase(normcase(name), normcase(pat))

\* f"*.{file_format.value}"
Pattern(file_format) == <<"*", ".">> \o file_format.value

\* f"File format not supported: {file_name}"
NotSupportedMessage(file_name) ==
    <<"F", "i", "l", "e", " ", "f", "o", "r", "m", "a", "t", " ",
      "n", "o", "t", " ", "s", "u", "p", "p", "o", "r", "t", "e", "d",
      ":", " ">> \o file_name

\* mutant: no match is reported as get_format reports it
is_supported_raising(path) ==
    LET file_name == basename(path)
        RECURSIVE loop(_)
        loop(i) ==
            IF i > Len(FileFormat)
            THEN Raise("ValueError", NotSupportedMessage(file_name))
            ELSE IF fnmatch(file_name, Pattern(FileFormat[i]))
                 THEN Return(TRUE)
            ELSE loop(i + 1)
    IN  loop(1)

is_supported(path) ==
    LET file_name == basename(path)
        RECURSIVE loop(_)
        loop(i) ==
            IF i > Len(FileFormat) THEN Return(FALSE)
            ELSE IF fnmatch(file_name, Pattern(FileFormat[i]))
                 THEN Return(TRUE)
            ELSE loop(i + 1)
    IN  loop(1)

\* mutant: the pattern lacks the dot before the extension
get_format_nodot(path) ==
    LET file_name == basename(path)
        RECURSIVE loop(_)
        loop(i) ==
            IF i > Len(FileFormat)
            THEN Raise("ValueError", NotSupportedMessage(file_name))
            ELSE IF fnmatch(file_name, <<"*">> \o FileFormat[i].value)
                 THEN Return(FileFormat[i].value)
            ELSE loop(i + 1)
    IN  loop(1)

get_format(path) ==
    LET file_name == basename(path)
        RECURSIVE loop(_)
        loop(i) ==
            IF i > Len(FileFormat)
            THEN Raise("ValueError", NotSupportedMessage(file_name))
            ELSE IF fnmatch(file_name, Pattern(FileFormat[i]))
                 THEN Return(FileFormat[i].value)
            ELSE loop(i + 1)
    IN  loop(1)

\* ", ".join([file_format.value for file_format in cls])
supported_formats ==
    LET RECURSIVE join(_)
        join(i) == IF i > Len(FileFormat) THEN <<>>
                   ELSE IF i = Len(FileFormat) THEN FileFormat[i].value
                   ELSE FileFormat[i].value \o <<",", " ">> \o join(i + 1)
    IN  Return(join(1))

(* ---------------------------------------------------------------------- *)
(* Inputs                                                                 *)
(* ---------------------------------------------------------------------- *)
RECURSIVE Concats(_, _)
\* the strings made of at most n of the given parts
Concats(parts, n) ==
    IF n = 0 THEN {<<>>}
    ELSE LET shorter == Concats(parts, n - 1)
         IN  shorter \cup {s \o p : s \in shorter, p \in parts}

PathParts ==
    { <<"d", "a", "t", "a">>, <<"/">>, <<".">>, <<" ">>, s_csv,
      <<".">> \o s_csv, <<".">> \o s_parquet,
      <<".", "C", "S", "V">>, <<".", "t", "x", "t">> }

Paths == Concats(PathParts, MaxPathParts)

RawParts ==
    { s_int, <<"3", "2">>, <<"6", "4">>, <<"f", "l", "o", "a", "t">>,
      s_string, s_bool, s_datetime, <<"I", "n", "t">>,
      <<"S", "T", "R", "I", "N", "G">>, <<" ">> }

Raws == Concats(RawParts, MaxRawParts)

OtherParts ==
    { s_PRECOMPUTED, <<"C", "L", "I", "E", "N", "T", "_">>,
      <<"C", "O", "M", "P", "U", "T", "E", "D">>,
      <<"p", "r", "e", "c", "o", "m", "p", "u", "t", "e", "d">>, <<" ">> }

Strs == {Str(s) : s \in Concats(OtherParts, MaxOtherParts)}

Modes == {PRECOMPUTED, CLIENT_COMPUTED}

(* ---------------------------------------------------------------------- *)
(* The state machine: the arguments are drawn at the start, every action  *)
(* is one call on them and records its outcome                            *)
(* ---------------------------------------------------------------------- *)
Init ==
    /\ cls \in {"FileFormat", "ScalarType", "ComputationMode"}
    /\ file_path \in IF cls = "FileFormat" THEN Paths ELSE {<<>>}
    /\ raw \in IF cls = "ScalarType" THEN Raws ELSE {<<>>}
    /\ self \in IF cls = "ComputationMode" THEN Modes \cup Strs
                ELSE {PRECOMPUTED}
    /\ other \in IF cls = "ComputationMode" THEN Modes \cup Strs
                 ELSE {PRECOMPUTED}
    /\ supported = Pending
    /\ format = Pending
    /\ formats = Pending
    /\ has = Pending
    /\ values = Pending
    /\ eq = Pending
    /\ code = Pending

IsSupported ==
    /\ cls = "FileFormat"
    /\ supported' = is_supported(file_path)
    /\ UNCHANGED <<cls, file_path, format, formats,
                   raw, has, values, self, other, eq, code>>

GetFormat ==
    /\ cls = "FileFormat"
    /\ format' = get_format(file_path)
    /\ UNCHANGED <<cls, file_path, supported, formats,
                   raw, has, values, self, other, eq, code>>

SupportedFormats ==
    /\ cls = "FileFormat"
    /\ formats' = supported_formats
    /\ UNCHANGED <<cls, file_path, supported, format,
                   raw, has, values, self, other, eq, code>>

HasValue ==
    /\ cls = "ScalarType"
    /\ has' = has_value(raw)
    /\ UNCHANGED <<cls, file_path, supported, format, formats,
                   raw, values, self, other, eq, code>>

GetValues ==
    /\ cls = "ScalarType"
    /\ values' = get_values
    /\ UNCHANGED <<cls, file_path, supported, format, formats,
                   raw, has, self, other, eq, code>>

\* the expression self == other
Eq ==
    /\ cls = "ComputationMode"
    /\ eq' = Return(PyEq(self, other))
    /\ UNCHANGED <<cls, file_path, supported, format, formats,
                   raw, has, values, self, other, code>>

\* the call ComputationMode.proto(self)
Proto ==
    /\ cls = "ComputationMode"
    /\ code' = proto(self)
    /\ UNCHANGED <<cls, file_path, supported, format, formats,
                   raw, has, values, self, other, eq>>

Next ==
    \/ IsSupported
    \/ GetFormat
    \/ SupportedFormats
    \/ HasValue
    \/ GetValues
    \/ Eq
    \/ Proto

Spec == Init /\ [][Next]_vars

(* ---------------------------------------------------------------------- *)
(* Vocabulary of the properties, stated apart from the operators above    *)
(* ---------------------------------------------------------------------- *)
Returns(outcome, v) == outcome.kind = "return" /\ outcome.value = v

EndsWith(s, suffix) ==
    /\ Len(suffix) <= Len(s)
    /\ SubSeq(s, Len(s) - Len(suffix) + 1, Len(s)) = suffix

\* the text after the last path separator: the suffix of p that holds no
\* separator and is either all of p or preceded by a separator
LastComponent(p) ==
    CHOOSE b \in {SubSeq(p, k, Len(p)) : k \in 1..(Len(p) + 1)} :
        /\ \A i \in 1..Len(b) : b[i] # "/"
        /\ Len(b) = Len(p) \/ p[Len(p) - Len(b)] = "/"

DotCsv == <<".", "c", "s", "v">>

DotParquet == <<".", "p", "a", "r", "q", "u", "e", "t">>

Matched(b) == EndsWith(b, DotCsv) \/ EndsWith(b, DotParquet)

Lowered(s) ==
    [i \in 1..Len(s) |->
        CASE s[i] = "C" -> "c" [] s[i] = "S" -> "s" [] s[i] = "V" -> "v"
          [] OTHER -> s[i]]

RECURSIVE Stripped(_)
Stripped(s) ==
    IF s # <<>> /\ s[Len(s)] = " " THEN Stripped(SubSeq(s, 1, Len(s) - 1))
    ELSE s

Dots(s) == Cardinality({i \in 1..Len(s) : s[i] = "."})

HasDirectory(p) == \E i \in 1..Len(p) : p[i] = "/"

CanonicalScalarTypes ==
    << <<>>,
       <<"i", "n", "t">>,
       <<"i", "n", "t", "3", "2">>,
       <<"i", "n", "t", "6", "4">>,
       <<"f", "l", "o", "a", "t", "3", "2">>,
       <<"f", "l", "o", "a", "t", "6", "4">>,
       <<"s", "t", "r", "i", "n", "g">>,
       <<"b", "o", "o", "l">>,
       <<"d", "a", "t", "e", "t", "i", "m", "e">> >>

(* ---------------------------------------------------------------------- *)
(* Properties                                                             *)
(* ---------------------------------------------------------------------- *)

\* C1: is_supported(p) is true exactly when the text after the last
\* separator of p ends with ".csv" or ".parquet"; the directory part of p
\* has no influence and a name with several dots is supported.
C1_IsSupportedIffBaseNameMatches ==
    supported.kind # "pending" =>
        Returns(supported, Matched(LastComponent(file_path)))

C1_Witness ==
    /\ Returns(supported, TRUE)
    /\ HasDirectory(file_path)
    /\ Dots(LastComponent(file_path)) >= 2

\* C2: get_format(p) returns the value of the first format, csv before
\* parquet, whose pattern matches the base name of p, and with no match it
\* raises an error whose message carries the base name, not the path.
C2_GetFormatFirstMatchOrError ==
    format.kind # "pending" =>
        LET b == LastComponent(file_path)
        IN  IF EndsWith(b, DotCsv) THEN Returns(format, <<"c", "s", "v">>)
            ELSE IF EndsWith(b, DotParquet)
                 THEN Returns(format, Tail(DotParquet))
            ELSE /\ format.kind = "raise"
                 /\ format.value = NotSupportedMessage(b)

C2_Witness ==
    /\ format.kind = "raise"
    /\ HasDirectory(file_path)
    /\ LastComponent(file_path) = <<".", "t", "x", "t">>

\* C3: matching is verbatim: a base name whose ending is an extension only
\* after folding case or stripping trailing blanks is not supported and
\* get_format raises on it, while a verbatim lower-case ending is supported.
C3_NoNormalization ==
    LET b == LastComponent(file_path)
        variant == /\ ~Matched(b)
                   /\ Matched(Lowered(b)) \/ Matched(Stripped(b))
    IN  /\ supported.kind # "pending" =>
            /\ variant => Returns(supported, FALSE)
            /\ Matched(b) => Returns(supported, TRUE)
        /\ format.kind # "pending" => (variant => format.kind = "raise")

C3_Witness ==
    /\ Returns(supported, FALSE)
    /\ format.kind = "raise"
    /\ EndsWith(LastComponent(file_path), <<".", "C", "S", "V">>)

\* C4: is_supported never raises: on every path it returns a boolean, FALSE
\* when no format matches; of all the operations only get_format raises.
C4_IsSupportedNeverRaises ==
    /\ supported.kind # "raise"
    /\ supported.kind = "return" =>
           /\ supported.value \in BOOLEAN
           /\ ~Matched(LastComponent(file_path)) => supported.value = FALSE
    /\ formats.kind # "raise"
    /\ has.kind # "raise"
    /\ values.kind # "raise"
    /\ eq.kind # "raise"
    /\ code.kind # "raise"

C4_Witness ==
    /\ Returns(supported, FALSE)
    /\ format.kind = "raise"
    /\ Len(file_path) > 1
    /\ file_path[Len(file_path)] = "/"

\* C5: has_value(raw) is true exactly when raw is one of the nine canonical
\* strings, the empty string among them; any other string gives FALSE.
C5_HasValueIffCanonical ==
    has.kind # "pending" =>
        Returns(has, \E i \in 1..9 : CanonicalScalarTypes[i] = raw)

C5_Witness == raw = <<>> /\ Returns(has, TRUE)

\* C6: proto maps PRECOMPUTED and CLIENT_COMPUTED to their protocol codes
\* and raises for every value that is neither of the two modes.
C6_ProtoRaisesOutOfDomain ==
    code.kind # "pending" =>
        IF self = PRECOMPUTED THEN Returns(code, pb_PRECOMPUTED)
        ELSE IF self = CLIENT_COMPUTED THEN Returns(code, pb_CLIENT_COMPUTED)
        ELSE code.kind = "raise"

\* C7: a mode equals a string exactly when the string is the mode's
\* canonical string, and equals a mode exactly when it is the same mode.
C7_EqualsCanonicalString ==
    (eq.kind # "pending" /\ self \in Modes) =>
        LET canonical ==
                IF self = PRECOMPUTED
                THEN <<"P", "R", "E", "C", "O", "M", "P", "U", "T", "E", "D">>
                ELSE <<"C", "L", "I", "E", "N", "T", "_",
                       "C", "O", "M", "P", "U", "T", "E", "D">>
        IN  IF other.type = "str"
            THEN Returns(eq, other.value = canonical)
            ELSE Returns(eq, other = self)

C7_Witness ==
    /\ self = CLIENT_COMPUTED
    /\ other = Str(s_CLIENT_COMPUTED)
    /\ Returns(eq, TRUE)

\* C8: get_values returns the nine canonical strings in declaration order,
\* the empty string first, on every call.
C8_GetValuesDeclarationOrder ==
    values.kind # "pending" => Returns(values, CanonicalScalarTypes)

C8_Witness ==
    /\ values.kind = "return"
    /\ Len(values.value) = 9
    /\ values.value[1] = <<>>

\* C9: is_supported(p) is true exactly when get_format(p) returns, and a
\* returned format is csv or parquet and the base name ends with "." and it.
C9_SupportedAgreesWithGetFormat ==
    (supported.kind # "pending" /\ format.kind # "pending") =>
        /\ Returns(supported, TRUE) <=> (format.kind = "return")
        /\ format.kind = "return" =>
               /\ format.value \in {<<"c", "s", "v">>, Tail(DotParquet)}
               /\ EndsWith(LastComponent(file_path),
                           <<".">> \o format.value)

C9_Witness ==
    /\ Returns(supported, TRUE)
    /\ Returns(format, s_parquet)
    /\ HasDirectory(file_path)

\* C10: no base name matches the patterns of two formats, so the outcomes
\* of get_format and is_supported do not depend on the order of the formats.
C10_AtMostOneFormatMatches ==
    LET matching == {FileFormat[i].value : i \in
                       {j \in 1..Len(FileFormat) :
                          fnmatch(basename(file_path),
                                  Pattern(FileFormat[j]))}}
    IN  /\ Cardinality(matching) <= 1
        /\ format.kind = "return" => matching = {format.value}
        /\ format.kind = "raise" => matching = {}
        /\ supported.kind = "return" => supported.value = (matching # {})

C10_Witness ==
    /\ Returns(format, s_parquet)
    /\ Returns(supported, TRUE)
    /\ \E k \in 1..Len(file_path) :
           EndsWith(SubSeq(file_path, 1, k), DotCsv)

====
